---- MODULE Spec2Model ----
(***************************************************************************)
(* Agent dispatch and response normalisation of backend/server.py:         *)
(* the lazily filled agent slots, the /chat, /search, /recipes/generate    *)
(* and /agents/capabilities handlers, and the recovery of a recipe record  *)
(* from the agent's free text.                                             *)
(*                                                                         *)
(* Text is a sequence of pieces.  The agent's content is a sequence of     *)
(* lexical tokens: "ws" (whitespace), "x" (a word of prose), "{", "}",     *)
(* ",", a member token k (the text of  "k": <value>  with a brace-free     *)
(* value), the key token "nutrition:" (the text of  "nutrition":  , to be  *)
(* followed by a value), and the scalar and list literals of AtomTokens.   *)
(* An Optional[...] value is a sequence: << >> is None (or any falsy       *)
(* value), <<v>> is v.                                                     *)
(***************************************************************************)
EXTENDS Integers, Sequences, FiniteSets, TLC

VARIABLES search_agent, chat_agent, recipe_agent, made, tasks

vars == <<search_agent, chat_agent, recipe_agent, made, tasks>>

-----------------------------------------------------------------------------
(* Bounds *)

\* concurrent requests of the dispatch specification
MaxTasks == 2
\* longest ingredient list of a recipe request of the extraction specification
MaxIngredients == 3
\* most tokens put around (before plus after) the body of a content text
MaxWrap == 3

-----------------------------------------------------------------------------
(* Generic helpers *)

\* None, for an agent slot and for a missing record
None == << >>

Some(v) == <<v>>

Nothing == << >>

Min(a, b) == IF a < b THEN a ELSE b

SeqsUpTo(S, n) == UNION {[1..k -> S] : k \in 0..n}

RECURSIVE Join(_)
\* ', '.join(list)
Join(list) ==
    IF Len(list) = 0 THEN << >>
    ELSE IF Len(list) = 1 THEN <<list[1]>>
    ELSE <<list[1], ", ">> \o Join(Tail(list))

IsSpace(p) == p \in {" ", "ws"}

RECURSIVE LStrip(_)
LStrip(s) == IF Len(s) > 0 /\ IsSpace(s[1]) THEN LStrip(Tail(s)) ELSE s

RECURSIVE RStrip(_)
RStrip(s) ==
    IF Len(s) > 0 /\ IsSpace(s[Len(s)]) THEN RStrip(SubSeq(s, 1, Len(s) - 1)) ELSE s

\* str.strip()
Strip(s) == RStrip(LStrip(s))

\* str.title() on the words the requests use
Title(w) ==
    CASE w = "thai" -> "Thai"
      [] w = "dinner" -> "Dinner"
      [] OTHER -> w

-----------------------------------------------------------------------------
(* Parsing the agent's content: re.search(r'\{.*\}', content, re.DOTALL)    *)
(* and json.loads                                                           *)

required_fields ==
    <<"name", "description", "prep_time", "cook_time", "servings", "difficulty",
      "ingredients", "instructions">>

Range(s) == {s[i] : i \in 1..Len(s)}

\* keys whose member token carries a brace-free value
ScalarKeys == Range(required_fields) \cup {"tips", "calories"}

\* literals that are JSON values on their own
AtomTokens == {"5", "null", "true", "\"hi\"", "\"allfields\"", "[]", "[allfields]"}

\* the value json.loads gives a member token's value text
MemberValue(k) ==
    CASE k = "ingredients" -> <<[item |-> "tofu", amount |-> "200", unit |-> "g"]>>
      [] k = "instructions" -> <<[step |-> 1, instruction |-> <<"Fry the tofu">>]>>
      [] k = "tips" -> << <<"Use firm tofu">> >>
      [] OTHER -> <<"agent's ", k>>

\* the value json.loads gives a literal: its kind and what  `field in value`  reads
AtomValue(tok) ==
    CASE tok = "5" -> [kind |-> "int", val |-> {}]
      [] tok = "null" -> [kind |-> "NoneType", val |-> {}]
      [] tok = "true" -> [kind |-> "bool", val |-> {}]
      [] tok = "\"hi\"" -> [kind |-> "str", val |-> {}]
      [] tok = "\"allfields\"" -> [kind |-> "str", val |-> Range(required_fields)]
      [] tok = "[]" -> [kind |-> "list", val |-> {}]
      [] tok = "[allfields]" -> [kind |-> "list", val |-> Range(required_fields)]

JSONDecodeError == [ok |-> FALSE, next |-> 0, kind |-> "JSONDecodeError", val |-> {}]

Parsed(next, kind, val) == [ok |-> TRUE, next |-> next, kind |-> kind, val |-> val]

EmptyDict == [k \in {} |-> << >>]

\* d[k] = v, a repeated key keeping the last value
Put(d, k, v) == [j \in DOMAIN d \cup {k} |-> IF j = k THEN v ELSE d[j]]

RECURSIVE ParseValue(_, _), ParseMember(_, _, _)

\* after a member: "}" closes the object, "," asks for another member
AfterMember(s, i, acc) ==
    IF i > Len(s) THEN JSONDecodeError
    ELSE IF s[i] = "}" THEN Parsed(i + 1, "dict", acc)
    ELSE IF s[i] = "," THEN ParseMember(s, i + 1, acc)
    ELSE JSONDecodeError

ParseMember(s, i, acc) ==
    IF i > Len(s) THEN JSONDecodeError
    ELSE IF s[i] \in ScalarKeys THEN AfterMember(s, i + 1, Put(acc, s[i], MemberValue(s[i])))
    ELSE IF s[i] = "nutrition:" THEN
        LET r == ParseValue(s, i + 1)
        IN  IF r.ok THEN AfterMember(s, r.next, Put(acc, "nutrition", r.val))
            ELSE JSONDecodeError
    ELSE JSONDecodeError

\* one JSON value starting at token i
ParseValue(s, i) ==
    IF i > Len(s) THEN JSONDecodeError
    ELSE IF s[i] = "{" THEN
        IF i + 1 <= Len(s) /\ s[i + 1] = "}" THEN Parsed(i + 2, "dict", EmptyDict)
        ELSE ParseMember(s, i + 1, EmptyDict)
    ELSE IF s[i] \in AtomTokens THEN
        Parsed(i + 1, AtomValue(s[i]).kind, AtomValue(s[i]).val)
    ELSE JSONDecodeError

\* json.loads(json_str): whitespace between tokens is skipped, one value, no extra data
json_loads(json_str) ==
    LET s == SelectSeq(json_str, LAMBDA tok : tok # "ws")
        r == ParseValue(s, 1)
    IN  IF r.ok /\ r.next = Len(s) + 1 THEN r ELSE JSONDecodeError

\* as json_match with the lazy pattern r'\{.*?\}': the match ends at the first "}"
json_match_lazy(content) ==
    LET opens == {i \in 1..Len(content) :
                    content[i] = "{" /\ \E j \in (i + 1)..Len(content) : content[j] = "}"}
    IN  IF opens = {} THEN Nothing
        ELSE LET i == CHOOSE a \in opens : \A b \in opens : a <= b
                 j == CHOOSE a \in (i + 1)..Len(content) :
                        /\ content[a] = "}"
                        /\ \A b \in (i + 1)..(a - 1) : content[b] # "}"
             IN  Some(SubSeq(content, i, j))

\* re.search(r'\{.*\}', content, re.DOTALL): from the leftmost "{" that has a "}"
\* after it to the last "}"; << >> when there is no match
json_match(content) ==
    LET opens == {i \in 1..Len(content) :
                    content[i] = "{" /\ \E j \in (i + 1)..Len(content) : content[j] = "}"}
    IN  IF opens = {} THEN Nothing
        ELSE LET i == CHOOSE a \in opens : \A b \in opens : a <= b
                 j == CHOOSE a \in (i + 1)..Len(content) :
                        /\ content[a] = "}"
                        /\ \A b \in (a + 1)..Len(content) : content[b] # "}"
             IN  Some(SubSeq(content, i, j))

\* `field not in recipe_data` for the first field it is true of: the field, "" when
\* every field is in recipe_data; "TypeError" when recipe_data supports no `in`
FirstMissing(recipe_data) ==
    IF recipe_data.kind \in {"int", "NoneType", "bool"} THEN "TypeError"
    ELSE LET has == IF recipe_data.kind = "dict" THEN DOMAIN recipe_data.val
                    ELSE recipe_data.val
             miss == {i \in 1..Len(required_fields) : required_fields[i] \notin has}
         IN  IF miss = {} THEN "" ELSE required_fields[CHOOSE i \in miss : \A j \in miss : i <= j]

\* the fields of FallbackRecipe that are the same for every request
FixedFields ==
    [prep_time |-> <<"15 minutes">>, servings |-> <<"4">>, difficulty |-> <<"Medium">>,
     tips |-> << <<"Adjust seasoning to taste">>,
                 <<"Feel free to substitute ingredients based on availability">> >>,
     nutrition |-> [calories |-> <<"300-400 per serving">>, protein |-> <<"15-25g">>,
                    carbs |-> <<"20-40g">>, fat |-> <<"10-20g">>]]

\* as FallbackIngredients with the slice the name uses, request.ingredients[:2]
FallbackIngredients_FirstTwo(request) ==
    [i \in 1..Min(2, Len(request.ingredients)) |->
        [item |-> request.ingredients[i], amount |-> "1-2", unit |-> "portions"]]

\* [{"item": ing, "amount": "1-2", "unit": "portions"} for ing in request.ingredients]
FallbackIngredients(request) ==
    [i \in 1..Len(request.ingredients) |->
        [item |-> request.ingredients[i], amount |-> "1-2", unit |-> "portions"]]

\* the record made from the request when the content gives none
FallbackRecipe(request) ==
    [name |->
        Strip((IF request.cuisine_type # Nothing
                 THEN <<Title(request.cuisine_type[1])>> ELSE << >>)
              \o <<" ">>
              \o (IF request.meal_type # Nothing
                    THEN <<Title(request.meal_type[1])>> ELSE <<"Dish">>)
              \o <<" ", "with", " ">>
              \o Join(SubSeq(request.ingredients, 1, Min(2, Len(request.ingredients))))),
     description |->
        <<"A delicious recipe using ">> \o Join(request.ingredients) \o <<" with ">>
        \o (IF request.dietary_restrictions # Nothing
              THEN Join(request.dietary_restrictions)
              ELSE <<"no dietary restrictions">>),
     prep_time |-> FixedFields.prep_time,
     cook_time |-> IF request.cooking_time # Nothing
                     THEN request.cooking_time[1] ELSE <<"30 minutes">>,
     servings |-> FixedFields.servings,
     difficulty |-> FixedFields.difficulty,
     ingredients |-> FallbackIngredients(request),
     instructions |->
        <<[step |-> 1,
           instruction |-> <<"Prepare all ingredients: ">> \o Join(request.ingredients)],
          [step |-> 2, instruction |-> <<"Heat oil in a large pan over medium heat">>],
          [step |-> 3,
           instruction |-> <<"Add ingredients and cook according to recipe requirements">>],
          [step |-> 4, instruction |-> <<"Season with salt, pepper, and herbs to taste">>],
          [step |-> 5, instruction |-> <<"Serve hot and enjoy!">>]>>,
     tips |-> FixedFields.tips,
     nutrition |-> FixedFields.nutrition]

\* an exception of class cls whose message is the text msg
Exc(cls, msg) == [cls |-> cls, msg |-> msg]

\* str(e), a text
Str(e) ==
    IF e.cls = "HTTPException" THEN <<"500", ": ">> \o e.msg
    ELSE e.msg

\* lines 275-323 of generate_recipe: the value of recipe_data, or the exception that
\* leaves the inner try block
ExtractRecipe(request, content_text) ==
    LET content == Strip(content_text)
        m == json_match(content)
        json_str == IF m # Nothing THEN m[1] ELSE content
        loaded == json_loads(json_str)
        missing == IF loaded.ok THEN FirstMissing(loaded) ELSE ""
    IN  IF ~loaded.ok THEN [raised |-> Nothing, kind |-> "dict", val |-> FallbackRecipe(request)]
        ELSE IF missing = "TypeError" THEN
            [raised |-> Some(Exc("TypeError",
                                 <<"argument of type '", loaded.kind, "' is not iterable">>)),
             kind |-> loaded.kind, val |-> loaded.val]
        ELSE IF missing # "" THEN
            [raised |-> Nothing, kind |-> "dict", val |-> FallbackRecipe(request)]
        ELSE [raised |-> Nothing, kind |-> loaded.kind, val |-> loaded.val]

-----------------------------------------------------------------------------
(* Requests and what an agent can answer *)

Tasks == 1..MaxTasks

IdleTask ==
    [pc |-> "idle", endpoint |-> "", request |-> None, agent |-> None, prompt |-> << >>,
     use_tools |-> FALSE, result |-> None, raised |-> Nothing, executes |-> 0,
     http |-> 0, response |-> None]

ChatRequests ==
    [message : {<<"hello">>}, agent_type : {"chat", "search", "translate"},
     context : {Nothing}]

SearchRequests == [query : {<<"rust ownership">>}, max_results : {5}]

\* the optional fields of a recipe request, each absent or present
RecipeOptions ==
    [dietary_restrictions : {<< >>, <<"vegan">>}, cuisine_type : {Nothing, Some("thai")},
     meal_type : {Nothing, Some("dinner")}, cooking_time : {Nothing, Some(<<"45 minutes">>)}]

RecipeRequest(ingredients, o) ==
    [ingredients |-> ingredients, dietary_restrictions |-> o.dietary_restrictions,
     cuisine_type |-> o.cuisine_type, meal_type |-> o.meal_type,
     cooking_time |-> o.cooking_time]

\* the recipe requests of the fallback specification
RecipeRequests ==
    {RecipeRequest(i, o) : i \in SeqsUpTo({"chicken", "rice"}, MaxIngredients),
                           o \in RecipeOptions}

\* the recipe requests of the dispatch specification
FewRecipeRequests ==
    {RecipeRequest(<<"chicken", "rice">>,
                   [dietary_restrictions |-> << >>, cuisine_type |-> Some("thai"),
                    meal_type |-> Nothing, cooking_time |-> Nothing])}

\* the recipe requests of the extraction specification
ExtractRequests ==
    FewRecipeRequests
    \cup {RecipeRequest(<<"rice">>,
                        [dietary_restrictions |-> <<"vegan">>, cuisine_type |-> Nothing,
                         meal_type |-> Some("dinner"),
                         cooking_time |-> Some(<<"45 minutes">>)])}

\* the text of a JSON object with these keys, in this order
RECURSIVE Members(_)
Members(keys) ==
    IF Len(keys) = 0 THEN << >>
    ELSE (IF keys[1] = "nutrition" THEN <<"nutrition:", "{", "calories", "}">>
          ELSE <<keys[1]>>)
         \o (IF Len(keys) > 1 THEN <<",">> ELSE << >>)
         \o Members(Tail(keys))

ObjectText(keys) == <<"{">> \o Members(keys) \o <<"}">>

Without(s, k) == SelectSeq(s, LAMBDA f : f # k)

\* the key lists of the objects the agent writes that have every required key
CompleteKeys ==
    {required_fields,
     required_fields \o <<"tips">>,
     <<"nutrition">> \o required_fields \o <<"tips">>,
     required_fields \o <<"nutrition">>,
     required_fields \o <<"name">>}

\* what the agent writes between the surrounding prose
Bodies ==
    {ObjectText(keys) : keys \in CompleteKeys}
    \cup {ObjectText(Without(required_fields, k)) : k \in Range(required_fields)}
    \cup {ObjectText(<< >>),
          ObjectText(<<"nutrition">>),
          <<"{">> \o Members(required_fields),
          <<"{">> \o Members(required_fields) \o <<",", "}">>,
          <<"{", "name", "description", "}">>,
          <<"{">> \o required_fields \o <<"}">>,
          ObjectText(required_fields) \o ObjectText(required_fields),
          <<"ws", "{", "ws">> \o Members(required_fields) \o <<"ws", "}", "ws">>,
          <<"ws", "5", "ws">>,
          <<"x">>, << >>}
    \cup {<<a>> : a \in AtomTokens}

WrapTokens == {"x", "{", "}"}

\* the content texts of the extraction specification
Wraps ==
    {w \in SeqsUpTo(WrapTokens, MaxWrap) \X SeqsUpTo(WrapTokens, MaxWrap) :
        Len(w[1]) + Len(w[2]) <= MaxWrap}

Contents == {w[1] \o body \o w[2] : w \in Wraps, body \in Bodies}

\* the content texts of the dispatch specification
FewContents ==
    {<<"x", "ws">> \o ObjectText(required_fields), <<"x">>, <<"5">>, <<"\"allfields\"">>}

Metadatas == {EmptyDict, [tools_used |-> 2]}

AgentErrors == {Nothing, Some(<<"rate limited">>)}

\* what `await agent.execute(...)` ends with: a result, or an exception
Returns(result) == [raised |-> Nothing, result |-> result]

Raises(e) == [raised |-> Some(e), result |-> None]

Outcomes(contents, metadatas) ==
    {Returns([success |-> TRUE, content |-> c, metadata |-> m, error |-> Nothing]) :
        c \in contents, m \in metadatas}
    \cup {Returns([success |-> FALSE, content |-> c, metadata |-> m, error |-> e]) :
        c \in contents, m \in metadatas, e \in AgentErrors}
    \cup {Raises(Exc("RuntimeError", <<"connection reset">>))}

\* what an agent's constructor raises when it fails
ConstructionError == Exc("ValueError", <<"missing configuration">>)

\* agent.get_capabilities()
get_capabilities(variant) ==
    CASE variant = "search" -> <<"web_search", "summarize">>
      [] variant = "chat" -> <<"conversation">>
      [] OTHER -> <<"recipes">>

-----------------------------------------------------------------------------
(* The handlers *)

\* as IsNone when the test is left out and the agent is built on every request
IsNone_Always(slot) == TRUE

\* `<slot> is None`
IsNone(slot) == slot = None

\* the instance a constructor call returns
NewAgent(variant) == <<variant, made[variant] + 1>>

\* as Catches for `except (ValueError, RuntimeError)`
Catches_Some(e) == e.cls \in {"ValueError", "ValidationError", "RuntimeError"}

\* `except Exception`: the classes raised here all derive from Exception
Catches(e) ==
    e.cls \in {"HTTPException", "TypeError", "ValueError", "ValidationError", "RuntimeError"}

\* the end of a request in which e was raised inside `try`
Except(e, failure) ==
    IF Catches(e) THEN [raised |-> Some(e), http |-> 200, response |-> failure]
    ELSE [raised |-> Some(e), http |-> 500, response |-> None]

Return(response) == [raised |-> Nothing, http |-> 200, response |-> response]

\* the request ends before any execute call
Respond(t, endpoint, request, end) ==
    tasks' = [tasks EXCEPT ![t] =
                [@ EXCEPT !.pc = "done", !.endpoint = endpoint, !.request = request,
                          !.raised = end.raised, !.http = end.http,
                          !.response = end.response]]

\* the request ends after its execute call ended with outcome
Finish(t, outcome, end) ==
    tasks' = [tasks EXCEPT ![t] =
                [@ EXCEPT !.pc = "done", !.result = outcome.result,
                          !.raised = end.raised, !.http = end.http,
                          !.response = end.response]]

Await(t, endpoint, request, agent, prompt, use_tools) ==
    tasks' = [tasks EXCEPT ![t] =
                [@ EXCEPT !.pc = "await", !.endpoint = endpoint, !.request = request,
                          !.agent = agent, !.prompt = prompt, !.use_tools = use_tools,
                          !.executes = @ + 1]]

ChatFailure(request, e) ==
    [success |-> FALSE, response |-> << >>, agent_type |-> request.agent_type,
     capabilities |-> << >>, metadata |-> EmptyDict, error |-> Some(Str(e))]

\* chat_with_agent up to `await agent.execute(request.message)`
chat_with_agent_begin(t, request, ctor_fails) ==
    LET init_search == request.agent_type = "search" /\ IsNone(search_agent)
        init_chat == ~init_search /\ request.agent_type = "chat" /\ IsNone(chat_agent)
    IN  /\ tasks[t].pc = "idle"
        \* a constructor can fail only when one is called
        /\ ctor_fails => (init_search \/ init_chat)
        /\ UNCHANGED recipe_agent
        /\ IF ctor_fails
             THEN /\ UNCHANGED <<search_agent, chat_agent, made>>
                  /\ Respond(t, "chat", request,
                             Except(ConstructionError, ChatFailure(request, ConstructionError)))
             ELSE /\ search_agent' = IF init_search THEN NewAgent("search") ELSE search_agent
                  /\ chat_agent' = IF init_chat THEN NewAgent("chat") ELSE chat_agent
                  /\ made' = [made EXCEPT !["search"] = IF init_search THEN @ + 1 ELSE @,
                                          !["chat"] = IF init_chat THEN @ + 1 ELSE @]
                  /\ LET agent == IF request.agent_type = "search"
                                    THEN search_agent' ELSE chat_agent'
                         e == Exc("HTTPException", <<"Failed to initialize agent">>)
                     IN  IF agent = None
                           THEN Respond(t, "chat", request, Except(e, ChatFailure(request, e)))
                           ELSE Await(t, "chat", request, agent, request.message, FALSE)

\* what chat_with_agent returns once execute has ended with outcome
ChatEnd(request, outcome) ==
    LET response == outcome.result
    IN  IF outcome.raised # Nothing
          THEN Except(outcome.raised[1], ChatFailure(request, outcome.raised[1]))
          ELSE Return([success |-> response.success, response |-> response.content,
                       agent_type |-> request.agent_type,
                       capabilities |->
                           get_capabilities(IF request.agent_type = "search"
                                              THEN "search" ELSE "chat"),
                       metadata |-> response.metadata, error |-> response.error])

\* chat_with_agent from the end of `await agent.execute(request.message)`
chat_with_agent_end(t, outcome) ==
    /\ tasks[t].pc = "await"
    /\ tasks[t].endpoint = "chat"
    /\ UNCHANGED <<search_agent, chat_agent, recipe_agent, made>>
    /\ \E end \in {ChatEnd(tasks[t].request, outcome)} : Finish(t, outcome, end)

SearchFailure(request, error) ==
    [success |-> FALSE, query |-> request.query, summary |-> << >>,
     search_results |-> Nothing, sources_count |-> 0, error |-> error]

search_prompt(request) ==
    <<"Search for information about: ">> \o request.query
    \o <<". Provide a comprehensive summary with key findings.">>

\* search_and_summarize up to `await search_agent.execute(search_prompt, use_tools=True)`
search_and_summarize_begin(t, request, ctor_fails) ==
    /\ tasks[t].pc = "idle"
    /\ ctor_fails => IsNone(search_agent)
    /\ UNCHANGED <<chat_agent, recipe_agent>>
    /\ IF ctor_fails
         THEN /\ UNCHANGED <<search_agent, made>>
              /\ Respond(t, "search", request,
                         Except(ConstructionError,
                                SearchFailure(request, Some(Str(ConstructionError)))))
         ELSE /\ search_agent' = IF IsNone(search_agent) THEN NewAgent("search")
                                 ELSE search_agent
              /\ made' = [made EXCEPT !["search"] = IF IsNone(search_agent) THEN @ + 1 ELSE @]
              /\ Await(t, "search", request, search_agent', search_prompt(request), TRUE)

\* metadata.get("tools_used", 0)
ToolsUsed(metadata) == IF "tools_used" \in DOMAIN metadata THEN metadata.tools_used ELSE 0

\* as SearchEnd when the failure branch reports what the agent returned all the same
SearchEnd_KeepsContent(request, outcome) ==
    IF outcome.raised # Nothing
      THEN Except(outcome.raised[1], SearchFailure(request, Some(Str(outcome.raised[1]))))
      ELSE Return([success |-> outcome.result.success, query |-> request.query,
                   summary |-> outcome.result.content,
                   search_results |-> Some(outcome.result.metadata),
                   sources_count |-> ToolsUsed(outcome.result.metadata),
                   error |-> outcome.result.error])

\* what search_and_summarize returns once execute has ended with outcome
SearchEnd(request, outcome) ==
    LET result == outcome.result
    IN  IF outcome.raised # Nothing
          THEN Except(outcome.raised[1],
                      SearchFailure(request, Some(Str(outcome.raised[1]))))
          ELSE IF result.success
            THEN Return([success |-> TRUE, query |-> request.query,
                         summary |-> result.content,
                         search_results |-> Some(result.metadata),
                         sources_count |-> ToolsUsed(result.metadata), error |-> Nothing])
            ELSE Return(SearchFailure(request, result.error))

\* search_and_summarize from the end of the awaited execute call
search_and_summarize_end(t, outcome) ==
    /\ tasks[t].pc = "await"
    /\ tasks[t].endpoint = "search"
    /\ UNCHANGED <<search_agent, chat_agent, recipe_agent, made>>
    /\ \E end \in {SearchEnd(tasks[t].request, outcome)} : Finish(t, outcome, end)

\* as CapabilitiesEnd with the agents built outside the try block
CapabilitiesEnd_NoTry(search_fails, chat_fails) ==
    IF search_fails \/ chat_fails
      THEN [raised |-> Some(ConstructionError), http |-> 500, response |-> None]
      ELSE Return([success |-> TRUE,
                   capabilities |-> [search_agent |-> get_capabilities("search"),
                                     chat_agent |-> get_capabilities("chat")]])

\* get_agent_capabilities: a SearchAgent, then a ChatAgent, built for the call alone
CapabilitiesEnd(search_fails, chat_fails) ==
    IF search_fails \/ chat_fails
      THEN Except(ConstructionError,
                  [success |-> FALSE, error |-> Str(ConstructionError)])
      ELSE Return([success |-> TRUE,
                   capabilities |-> [search_agent |-> get_capabilities("search"),
                                     chat_agent |-> get_capabilities("chat")]])

\* when SearchAgent(agent_config) raises, ChatAgent(agent_config) is not called
get_agent_capabilities(t, search_fails, chat_fails) ==
    /\ tasks[t].pc = "idle"
    /\ search_fails => ~chat_fails
    /\ UNCHANGED <<search_agent, chat_agent, recipe_agent, made>>
    /\ Respond(t, "capabilities", None, CapabilitiesEnd(search_fails, chat_fails))

RecipeFailure(error) == [success |-> FALSE, recipe |-> EmptyDict, error |-> error]

\* "\n".join(prompt_parts)
RECURSIVE JoinLines(_)
JoinLines(parts) ==
    IF Len(parts) = 0 THEN << >>
    ELSE IF Len(parts) = 1 THEN parts[1]
    ELSE parts[1] \o <<"\n">> \o JoinLines(Tail(parts))

recipe_prompt(request) ==
    JoinLines(
        << <<"Create a detailed recipe using these ingredients: ">>
           \o Join(request.ingredients) >>
        \o (IF request.dietary_restrictions # Nothing
              THEN << <<"Dietary restrictions: ">> \o Join(request.dietary_restrictions) >>
              ELSE << >>)
        \o (IF request.cuisine_type # Nothing
              THEN << <<"Cuisine type: ">> \o request.cuisine_type >> ELSE << >>)
        \o (IF request.meal_type # Nothing
              THEN << <<"Meal type: ">> \o request.meal_type >> ELSE << >>)
        \o (IF request.cooking_time # Nothing
              THEN << <<"Cooking time preference: ">> \o request.cooking_time[1] >>
              ELSE << >>)
        \o << <<"\n", "{recipe JSON template}">> >>)

\* generate_recipe up to `await recipe_agent.execute(recipe_prompt)`
generate_recipe_begin(t, request, ctor_fails) ==
    /\ tasks[t].pc = "idle"
    /\ ctor_fails => IsNone(recipe_agent)
    /\ UNCHANGED <<search_agent, chat_agent>>
    /\ IF ctor_fails
         THEN /\ UNCHANGED <<recipe_agent, made>>
              /\ Respond(t, "recipe", request,
                         Except(ConstructionError,
                                RecipeFailure(Some(Str(ConstructionError)))))
         ELSE /\ recipe_agent' = IF IsNone(recipe_agent) THEN NewAgent("recipe")
                                 ELSE recipe_agent
              /\ made' = [made EXCEPT !["recipe"] = IF IsNone(recipe_agent) THEN @ + 1 ELSE @]
              /\ Await(t, "recipe", request, recipe_agent', recipe_prompt(request), FALSE)

\* as RecipeEnd when a failed execution is answered with the fallback record too
RecipeEnd_FallbackOnFailure(request, outcome) ==
    IF outcome.raised # Nothing
      THEN Except(outcome.raised[1], RecipeFailure(Some(Str(outcome.raised[1]))))
      ELSE Return([success |-> outcome.result.success, recipe |-> FallbackRecipe(request),
                   error |-> outcome.result.error])

\* what generate_recipe returns once execute has ended with outcome
RecipeEnd(request, outcome) ==
    LET result == outcome.result
        recipe_data == ExtractRecipe(request, result.content)
        invalid == Exc("ValidationError", <<"recipe: value is not a valid dict">>)
    IN  IF outcome.raised # Nothing
          THEN Except(outcome.raised[1], RecipeFailure(Some(Str(outcome.raised[1]))))
        ELSE IF ~result.success THEN Return(RecipeFailure(result.error))
        ELSE IF recipe_data.raised # Nothing
          THEN Except(recipe_data.raised[1], RecipeFailure(Some(Str(recipe_data.raised[1]))))
        ELSE IF recipe_data.kind # "dict"
          THEN Except(invalid, RecipeFailure(Some(Str(invalid))))
        ELSE Return([success |-> TRUE, recipe |-> recipe_data.val, error |-> Nothing])

\* generate_recipe from the end of `await recipe_agent.execute(recipe_prompt)`
generate_recipe_end(t, outcome) ==
    /\ tasks[t].pc = "await"
    /\ tasks[t].endpoint = "recipe"
    /\ UNCHANGED <<search_agent, chat_agent, recipe_agent, made>>
    /\ \E end \in {RecipeEnd(tasks[t].request, outcome)} : Finish(t, outcome, end)

-----------------------------------------------------------------------------
(* Specifications *)

Init ==
    /\ search_agent = None
    /\ chat_agent = None
    /\ recipe_agent = None
    /\ made = [v \in {"search", "chat", "recipe"} |-> 0]
    /\ tasks = [t \in Tasks |-> IdleTask]

\* the inputs of a handler are drawn once its task can take the step
Idle(t) == tasks[t].pc = "idle"

Awaiting(t, endpoint) == tasks[t].pc = "await" /\ tasks[t].endpoint = endpoint

ChatBegin ==
    \E t \in Tasks : Idle(t) /\ \E r \in ChatRequests, f \in BOOLEAN :
        chat_with_agent_begin(t, r, f)

ChatFinish ==
    \E t \in Tasks : Awaiting(t, "chat") /\ \E o \in Outcomes(FewContents, Metadatas) :
        chat_with_agent_end(t, o)

SearchBegin ==
    \E t \in Tasks : Idle(t) /\ \E r \in SearchRequests, f \in BOOLEAN :
        search_and_summarize_begin(t, r, f)

SearchFinish ==
    \E t \in Tasks : Awaiting(t, "search") /\ \E o \in Outcomes(FewContents, Metadatas) :
        search_and_summarize_end(t, o)

Capabilities ==
    \E t \in Tasks : Idle(t) /\ \E f, g \in BOOLEAN : get_agent_capabilities(t, f, g)

RecipeBegin ==
    \E t \in Tasks : Idle(t) /\ \E r \in FewRecipeRequests, f \in BOOLEAN :
        generate_recipe_begin(t, r, f)

RecipeFinish ==
    \E t \in Tasks : Awaiting(t, "recipe") /\ \E o \in Outcomes(FewContents, Metadatas) :
        generate_recipe_end(t, o)

Next ==
    \/ ChatBegin
    \/ ChatFinish
    \/ SearchBegin
    \/ SearchFinish
    \/ Capabilities
    \/ RecipeBegin
    \/ RecipeFinish

\* concurrent requests to the four endpoints
Spec == Init /\ [][Next]_vars

ExtractBegin ==
    Idle(1) /\ \E r \in ExtractRequests, f \in BOOLEAN : generate_recipe_begin(1, r, f)

ExtractFinish ==
    Awaiting(1, "recipe") /\ \E o \in Outcomes(Contents, {EmptyDict}) :
        generate_recipe_end(1, o)

NextExtract == ExtractBegin \/ ExtractFinish

\* one /recipes/generate request, over every request and content text of the bounds
SpecExtract == Init /\ [][NextExtract]_vars

FallbackBegin ==
    Idle(1) /\ \E r \in RecipeRequests, f \in BOOLEAN : generate_recipe_begin(1, r, f)

FallbackFinish ==
    Awaiting(1, "recipe") /\ \E o \in Outcomes(Bodies, {EmptyDict}) :
        generate_recipe_end(1, o)

NextFallback == FallbackBegin \/ FallbackFinish

\* one /recipes/generate request, over every request of the bounds
SpecFallback == Init /\ [][NextFallback]_vars

-----------------------------------------------------------------------------
(* Properties *)

Done(t, endpoint) == tasks[t].pc = "done" /\ tasks[t].endpoint = endpoint

\* execute returned a result to the handler of t
Executed(t) == tasks[t].pc = "done" /\ tasks[t].result # None

RequiredKeys == Range(required_fields)

ValidRecipeRecord(recipe) == RequiredKeys \subseteq DOMAIN recipe

\* the span from the first "{" to the last "}" of a text, << >> when there is none
BraceSpan(text) ==
    LET opens == {i \in 1..Len(text) : text[i] = "{"}
        closes == {i \in 1..Len(text) : text[i] = "}"}
    IN  IF opens = {} \/ closes = {} THEN Nothing
        ELSE LET first == CHOOSE i \in opens : \A k \in opens : i <= k
                 last == CHOOSE i \in closes : \A k \in closes : i >= k
             IN  IF first < last THEN Some(SubSeq(text, first, last)) ELSE Nothing

\* the text json.loads is given: the brace span of the trimmed content, else all of it
Candidate(content) ==
    IF BraceSpan(Strip(content)) # Nothing THEN BraceSpan(Strip(content))[1]
    ELSE Strip(content)

NoSpace(text) == SelectSeq(text, LAMBDA tok : tok # "ws")

\* the record an object text with these keys stands for
RecordOf(keys) ==
    [k \in Range(keys) |->
        IF k = "nutrition" THEN [calories |-> MemberValue("calories")] ELSE MemberValue(k)]

\* C1: whenever execute returned success=true to /recipes/generate, the response has
\* success=true and a recipe with all eight required keys, whatever the content is
C1_ExtractionNeverFails ==
    \A t \in Tasks :
        (Executed(t) /\ tasks[t].endpoint = "recipe" /\ tasks[t].result.success)
        => /\ tasks[t].http = 200
           /\ tasks[t].response.success
           /\ ValidRecipeRecord(tasks[t].response.recipe)

\* C2: when execute returned success=true and the span from the first "{" to the last
\* "}" of the trimmed content is an object with all required keys, the response has
\* success=true and its recipe is that object: same keys, same values
C2_ValidOutputUnchanged ==
    \A t \in Tasks : \A keys \in CompleteKeys :
        (/\ Executed(t) /\ tasks[t].endpoint = "recipe" /\ tasks[t].result.success
         /\ BraceSpan(Strip(tasks[t].result.content)) # Nothing
         /\ NoSpace(BraceSpan(Strip(tasks[t].result.content))[1]) = ObjectText(keys))
        => /\ tasks[t].http = 200
           /\ tasks[t].response.success
           /\ tasks[t].response.recipe = RecordOf(keys)

\* C2 happens: an object with a nested object, wrapped in prose on both sides, is returned
C2_Witness ==
    \E t \in Tasks :
        /\ Done(t, "recipe")
        /\ Executed(t)
        /\ tasks[t].result.content
             = <<"x">> \o ObjectText(required_fields \o <<"nutrition">>) \o <<"x">>
        /\ tasks[t].response.success
        /\ tasks[t].response.recipe = RecordOf(required_fields \o <<"nutrition">>)

\* the content is no JSON text, or a JSON object that lacks a required key
Unusable(content) ==
    LET loaded == json_loads(Candidate(content))
    IN  \/ ~loaded.ok
        \/ loaded.kind = "dict" /\ ~ValidRecipeRecord(loaded.val)

\* C3: when execute returned success=true with unparsable text or an object missing a
\* required key, the response has success=true, its recipe has all required keys and
\* fixed fields that come from no content, and ingredient i is request ingredient i
C3_FallbackKeepsIngredients ==
    \A t \in Tasks :
        (/\ Executed(t) /\ tasks[t].endpoint = "recipe" /\ tasks[t].result.success
         /\ Unusable(tasks[t].result.content))
        => LET recipe == tasks[t].response.recipe
               wanted == tasks[t].request.ingredients
           IN  /\ tasks[t].response.success
               /\ ValidRecipeRecord(recipe)
               /\ recipe.servings = <<"4">>
               /\ Len(recipe.ingredients) = Len(wanted)
               /\ \A i \in 1..Len(wanted) : recipe.ingredients[i].item = wanted[i]

\* C3 happens: three ingredients, two of them the same, and an object lacking a key
C3_Witness ==
    \E t \in Tasks :
        /\ Done(t, "recipe")
        /\ Executed(t)
        /\ tasks[t].request.ingredients = <<"rice", "chicken", "rice">>
        /\ tasks[t].result.success
        /\ tasks[t].result.content = ObjectText(Without(required_fields, "servings"))
        /\ Len(tasks[t].response.recipe.ingredients) = 3

Recognized(agent_type) == agent_type \in {"chat", "search"}

\* C4: a /chat response to an unrecognized agent_type carries agent_type "chat"
C4_ResolvedAgentType ==
    \A t \in Tasks :
        (Done(t, "chat") /\ tasks[t].http = 200 /\ ~Recognized(tasks[t].request.agent_type))
        => tasks[t].response.agent_type = "chat"

\* C5: a /chat request with an unrecognized agent_type runs on the chat agent, built
\* when the slot is empty, with the raw message as the prompt; it ends without an
\* execute call only when building the agent failed
C5_UnrecognizedRunsOnChat ==
    \A t \in Tasks :
        (/\ tasks[t].endpoint = "chat" /\ tasks[t].pc # "idle"
         /\ ~Recognized(tasks[t].request.agent_type))
        => \/ /\ tasks[t].executes = 1
              /\ tasks[t].agent # None
              /\ tasks[t].agent = chat_agent
              /\ tasks[t].prompt = tasks[t].request.message
           \/ tasks[t].raised = Some(ConstructionError)

\* C6: when execute returned success=false to /recipes/generate, the response is
\* success=false with an empty recipe and the agent's error, whatever the content is
C6_AgentFailureNoFallback ==
    \A t \in Tasks :
        (Executed(t) /\ tasks[t].endpoint = "recipe" /\ ~tasks[t].result.success)
        => /\ tasks[t].http = 200
           /\ tasks[t].response
                = [success |-> FALSE, recipe |-> EmptyDict, error |-> tasks[t].result.error]

\* C6 happens: the failed execution came with a complete recipe object as its content
C6_Witness ==
    \E t \in Tasks :
        /\ Done(t, "recipe")
        /\ tasks[t].result # None
        /\ ~tasks[t].result.success
        /\ tasks[t].result.content = ObjectText(required_fields)
        /\ tasks[t].result.error = Some(<<"rate limited">>)
        /\ tasks[t].response.recipe = EmptyDict

\* C7: when execute returned success=false to /search, the response is success=false
\* with the request's query, an empty summary, sources_count 0 and the agent's error
C7_SearchFailureShape ==
    \A t \in Tasks :
        (Executed(t) /\ tasks[t].endpoint = "search" /\ ~tasks[t].result.success)
        => /\ tasks[t].http = 200
           /\ ~tasks[t].response.success
           /\ tasks[t].response.query = tasks[t].request.query
           /\ tasks[t].response.summary = << >>
           /\ tasks[t].response.sources_count = 0
           /\ tasks[t].response.error = tasks[t].result.error

\* C7 happens: the failed search came back with content and a tool count
C7_Witness ==
    \E t \in Tasks :
        /\ Done(t, "search")
        /\ tasks[t].result # None
        /\ ~tasks[t].result.success
        /\ tasks[t].result.content # << >>
        /\ ToolsUsed(tasks[t].result.metadata) = 2
        /\ tasks[t].result.error = Some(<<"rate limited">>)
        /\ tasks[t].response.sources_count = 0

ConstructionFailed(t) == tasks[t].pc = "done" /\ tasks[t].raised = Some(ConstructionError)

\* a construction failure in /chat, /search or /recipes/generate ends in a
\* success=false response
ConstructionFailureShaped(t) ==
    (ConstructionFailed(t) /\ tasks[t].endpoint \in {"chat", "search", "recipe"})
    => /\ tasks[t].http = 200
       /\ ~tasks[t].response.success
       /\ tasks[t].response.error = Some(Str(ConstructionError))

\* C8 as stated: a construction failure in GET /agents/capabilities ends in HTTP 500
\* with no success=false body; in the other three endpoints it ends in a
\* success=false response
C8_CapabilitiesFailurePropagates ==
    \A t \in Tasks :
        /\ (ConstructionFailed(t) /\ tasks[t].endpoint = "capabilities")
           => tasks[t].http = 500
        /\ ConstructionFailureShaped(t)

\* C8 amended: a construction failure in GET /agents/capabilities is caught by the
\* handler and ends in HTTP 200 with a success=false body carrying the exception's
\* text, as it ends in a success=false response in the other three endpoints
C8_CapabilitiesFailureCaught ==
    \A t \in Tasks :
        /\ (ConstructionFailed(t) /\ tasks[t].endpoint = "capabilities")
           => /\ tasks[t].http = 200
              /\ tasks[t].response = [success |-> FALSE, error |-> Str(ConstructionError)]
        /\ ConstructionFailureShaped(t)

\* C8 happens: construction failed in the capability listing and in a dispatch endpoint
C8_Witness ==
    \E t, u \in Tasks :
        /\ ConstructionFailed(t) /\ tasks[t].endpoint = "capabilities"
        /\ ConstructionFailed(u) /\ tasks[u].endpoint = "search"

\* the variant a request is dispatched to
Variant(t) ==
    IF tasks[t].endpoint = "search" THEN "search"
    ELSE IF tasks[t].endpoint = "recipe" THEN "recipe"
    ELSE IF tasks[t].request.agent_type = "search" THEN "search"
    ELSE "chat"

Slot(variant) ==
    CASE variant = "search" -> search_agent
      [] variant = "chat" -> chat_agent
      [] OTHER -> recipe_agent

\* C9: in every interleaving each variant is built at most once by the dispatch
\* endpoints, every request that called execute did so on the instance stored in its
\* variant's slot (/chat with agent_type=search and /search use the search slot), and
\* a filled slot is never replaced
C9_ConstructedOnce ==
    /\ [](\A v \in DOMAIN made : made[v] <= 1)
    /\ [](\A t \in Tasks : tasks[t].executes > 0 => tasks[t].agent = Slot(Variant(t)))
    /\ [][/\ search_agent # None => search_agent' = search_agent
          /\ chat_agent # None => chat_agent' = chat_agent
          /\ recipe_agent # None => recipe_agent' = recipe_agent]_vars

\* C9 happens: /search and /chat with agent_type=search are both suspended in execute,
\* on the one search agent
C9_Witness ==
    \E t, u \in Tasks :
        /\ tasks[t].pc = "await" /\ tasks[t].endpoint = "search"
        /\ tasks[u].pc = "await" /\ tasks[u].endpoint = "chat"
        /\ tasks[u].request.agent_type = "search"
        /\ tasks[t].agent = tasks[u].agent
        /\ made["search"] = 1

\* C10: in /chat, /search and /recipes/generate a request in which an exception was
\* raised ends in HTTP 200 with success=false and error = str(e); no request ends
\* with the exception reaching the transport, and none calls execute twice
C10_ExceptionsCaught ==
    \A t \in Tasks :
        /\ tasks[t].http # 500
        /\ tasks[t].executes <= 1
        /\ (tasks[t].pc = "done" /\ tasks[t].endpoint \in {"chat", "search", "recipe"}
            /\ tasks[t].raised # Nothing)
           => /\ tasks[t].http = 200
              /\ ~tasks[t].response.success
              /\ tasks[t].response.error = Some(Str(tasks[t].raised[1]))

\* C10 happens: the membership test of the extraction raised TypeError in one request
\* and execute raised in another
C10_Witness ==
    \E t, u \in Tasks :
        /\ Done(t, "recipe") /\ tasks[t].raised # Nothing
        /\ tasks[t].raised[1].cls = "TypeError"
        /\ ~tasks[t].response.success
        /\ Done(u, "chat") /\ tasks[u].raised # Nothing
        /\ tasks[u].raised[1].cls = "RuntimeError"
        /\ tasks[u].executes = 1

====
